---- MODULE Spec2Model ----
(***************************************************************************)
(* Model of the two prompt-engineering notebooks (basic-prompt-structures  *)
(* and instruction-engineering): the prompt formatter (PromptTemplate with *)
(* the default f-string format) and the conversation accumulator           *)
(* (ConversationChain over a ConversationBufferMemory).                    *)
(*                                                                         *)
(* A string is a sequence of one-character strings, so that formatting and *)
(* rendering are computed character by character.                          *)
(***************************************************************************)
EXTENDS Integers, Sequences, FiniteSets, TLC

VARIABLES
    tmpl,        \* structured_prompt: the template string of the PromptTemplate
    bindings,    \* the dict handed to the template (placeholder name -> value)
    created,     \* the conversations constructed so far
    prefixes,    \* per conversation: human_prefix and ai_prefix of its memory
    transcript,  \* per conversation: chat_memory.messages
    pending,     \* the model call the session is blocked on, or None
    ret,         \* what the last operation returned (or raised)
    trace,       \* history: the last two operations, the older one first
    appended,    \* history: per conversation, the turns appended since it was empty
    exchanges,   \* history: per conversation, the predicts completed since it was empty,
                 \* each with its input, its response and the history it submitted
    run          \* the comparison of cell-10: its prompts, its position in them and
                 \* the model calls it has made; Off when the cell is not running

vars == <<tmpl, bindings, created, prefixes, transcript, pending, ret, trace, appended,
          exchanges, run>>

\* ---------------------------------------------------------------- bounds
\* longest transcript that the operations of Spec build
MaxTurns == 2
\* completed predicts per conversation in SpecConv
MaxExchanges == 2
\* longest template of SpecFmt, in characters
MaxTemplateLen == 4
\* longest transcript SpecFmt builds beside the formatter
MaxFmtTurns == 1
\* predicts of the one conversation of SpecChat: cell-8 makes three
MaxPredicts == 3
\* longest list of prompts of the comparison of cell-10, which has three
MaxPrompts == 3
\* the conversations the notebook constructs: that of cell-8 and that of cell-10
Accs == {1, 2}

None == <<"None">>

\* no model call is outstanding
Idle == [kind |-> "idle", acc |-> 0, input |-> <<>>, history |-> <<>>, prompt |-> <<>>]

\* a conversation that is not constructed has no memory
NoPrefixes == [human |-> None, assistant |-> None]

\* ---------------------------------------------------------------- strings
\* "".join(parts)
Concat(parts) ==
    LET upto[n \in 0..Len(parts)] == IF n = 0 THEN <<>> ELSE upto[n - 1] \o parts[n]
    IN upto[Len(parts)]

RECURSIVE join_with_trailing_separator(_, _)
\* a faulty join: the separator follows every part, the last one included
join_with_trailing_separator(sep, parts) ==
    IF parts = <<>> THEN <<>>
    ELSE parts[1] \o sep \o join_with_trailing_separator(sep, Tail(parts))

RECURSIVE join(_, _)
\* sep.join(parts)
join(sep, parts) ==
    IF parts = <<>> THEN <<>>
    ELSE IF Len(parts) = 1 THEN parts[1]
    ELSE parts[1] \o sep \o join(sep, Tail(parts))

Hi == <<"H","i">>

Hello == <<"H","e","l","l","o">>

\* a text of two lines whose second line starts like a role label
TwoLines == <<"o","k","\n","A","I",":"," ","n","o">>

\* the texts of human inputs
Inputs == {Hi, TwoLines}

\* the texts of model responses
Replies == {Hello, TwoLines}

Texts == Inputs \cup Replies

Roles == {"human", "assistant"}

Turn(role, text) == [role |-> role, text |-> text]

\* the texts the model draws for a turn of a role
TextsOf(role) == IF role = "human" THEN Inputs ELSE Replies

\* ------------------------------------------------- conversation accumulator
\* faulty defaults: the label of the assistant depends on the conversation
PrefixesByConversation(a) ==
    [human |-> <<"H","u","m","a","n">>,
     assistant |-> IF a = 1 THEN <<"A","I">> ELSE <<"A","s","s","i","s","t","a","n","t">>]

\* the memory's default human_prefix and ai_prefix
DefaultPrefixes(a) == [human |-> <<"H","u","m","a","n">>, assistant |-> <<"A","I">>]

\* f"{role}: {m.content}" of get_buffer_string
Entry(pre, turn) == pre[turn.role] \o <<":"," ">> \o turn.text

\* a faulty string_messages: only the newest message is listed
string_messages_newest_only(pre, messages) ==
    IF messages = <<>> THEN <<>> ELSE <<Entry(pre, messages[Len(messages)])>>

RECURSIVE string_messages(_, _)
\* the list get_buffer_string builds, one entry per message, in list order
string_messages(pre, messages) ==
    IF messages = <<>> THEN <<>>
    ELSE <<Entry(pre, Head(messages))>> \o string_messages(pre, Tail(messages))

\* get_buffer_string: "\n".join(string_messages)
get_buffer_string(pre, messages) == join(<<"\n">>, string_messages(pre, messages))

\* memory.buffer of conversation a: the history handed to the prompt
render_context(a) == get_buffer_string(prefixes[a], transcript[a])

\* a faulty add_message: the new turn goes in front of the older ones
add_message_in_front(messages, role, text) == <<Turn(role, text)>> \o messages

\* a faulty add_message: only the newest turn is kept
add_message_replacing(messages, role, text) == <<Turn(role, text)>>

\* a faulty add_message: the turn is added twice
add_message_twice(messages, role, text) ==
    Append(Append(messages, Turn(role, text)), Turn(role, text))

\* chat_memory.add_message
add_message(messages, role, text) == Append(messages, Turn(role, text))

\* a faulty clear: the newest turn survives
clear_but_newest(messages) ==
    IF messages = <<>> THEN <<>> ELSE <<messages[Len(messages)]>>

\* a faulty clear: the oldest message is kept
clear_but_oldest(messages) == IF messages = <<>> THEN <<>> ELSE <<messages[1]>>

\* chat_memory.clear
clear(messages) == <<>>

\* the prompt of ConversationChain, an f-string template over history and input
ConversationTemplate ==
    <<"T","h","e"," ","f","o","l","l","o","w","i","n","g"," ","i","s"," ","a"," ","f","r",
      "i","e","n","d","l","y"," ","c","o","n","v","e","r","s","a","t","i","o","n"," ","b",
      "e","t","w","e","e","n"," ","a"," ","h","u","m","a","n"," ","a","n","d"," ","a","n",
      " ","A","I","."," ","T","h","e"," ","A","I"," ","i","s"," ","t","a","l","k","a","t",
      "i","v","e"," ","a","n","d"," ","p","r","o","v","i","d","e","s"," ","l","o","t","s",
      " ","o","f"," ","s","p","e","c","i","f","i","c"," ","d","e","t","a","i","l","s"," ",
      "f","r","o","m"," ","i","t","s"," ","c","o","n","t","e","x","t","."," ","I","f"," ",
      "t","h","e"," ","A","I"," ","d","o","e","s"," ","n","o","t"," ","k","n","o","w"," ",
      "t","h","e"," ","a","n","s","w","e","r"," ","t","o"," ","a"," ","q","u","e","s","t",
      "i","o","n",","," ","i","t"," ","t","r","u","t","h","f","u","l","l","y"," ","s","a",
      "y","s"," ","i","t"," ","d","o","e","s"," ","n","o","t"," ","k","n","o","w",".",
      "\n","\n","C","u","r","r","e","n","t"," ","c","o","n","v","e","r","s","a","t","i",
      "o","n",":","\n","{","h","i","s","t","o","r","y","}","\n","H","u","m","a","n",":",
      " ","{","i","n","p","u","t","}","\n","A","I",":">>


\* ----------------------------------------------------------- prompt formatter
Lit(text) == [kind |-> "lit", text |-> text]

Field(name) == [kind |-> "field", text |-> name]

\* the format string is malformed: parse raises ValueError
Bad == [kind |-> "bad", text |-> <<>>]

\* index of the first character at or after position i that is in chars, 0 when
\* there is none
Find(s, i, chars) ==
    IF \A k \in i..Len(s) : s[k] \notin chars THEN 0
    ELSE CHOOSE k \in i..Len(s) : s[k] \in chars /\ \A n \in i..(k - 1) : s[n] \notin chars

\* string.Formatter.parse from position i on: runs of literal text, "{{" and "}}"
\* read as one literal brace, and a field for each "{name}"; from[p] is the
\* parse from position p on
parse(s, i) ==
    LET from[p \in 1..(Len(s) + 1)] ==
            IF p > Len(s) THEN <<>>
            ELSE IF s[p] \notin {"{", "}"} THEN
                LET k == Find(s, p, {"{", "}"}) IN
                IF k = 0 THEN <<Lit(SubSeq(s, p, Len(s)))>>
                ELSE <<Lit(SubSeq(s, p, k - 1))>> \o from[k]
            ELSE IF p < Len(s) /\ s[p + 1] = s[p] THEN <<Lit(<<s[p]>>)>> \o from[p + 2]
            ELSE IF s[p] = "}" THEN <<Bad>>
            ELSE LET j == Find(s, p + 1, {"}"}) IN
                 IF j = 0 THEN <<Bad>>
                 ELSE <<Field(SubSeq(s, p + 1, j - 1))>> \o from[j + 1]
    IN from[i]

\* get_template_variables: the names of the placeholders of a template
get_template_variables(T) ==
    LET segs == parse(T, 1) IN
    {segs[k].text : k \in {n \in 1..Len(segs) : segs[n].kind = "field"}}

\* a name of a placeholder: not empty and without braces
IsName(name) == name # <<>> /\ \A k \in 1..Len(name) : name[k] \notin {"{", "}"}

\* the strings a PromptTemplate is constructed from: well-formed format
\* strings all of whose fields are named
IsTemplate(T) ==
    LET segs == parse(T, 1) IN
    \A k \in 1..Len(segs) :
        /\ segs[k].kind # "bad"
        /\ segs[k].kind = "field" => IsName(segs[k].text)

\* a faulty vformat: a field is replaced by its name, not by the bound value
vformat_names(T, B) ==
    LET segs == parse(T, 1) IN
    Concat([k \in 1..Len(segs) |-> segs[k].text])

\* a faulty vformat: the value of a field is put in quotes, as its repr
vformat_quoted(T, B) ==
    LET segs == parse(T, 1) IN
    Concat([k \in 1..Len(segs) |->
               IF segs[k].kind = "field" THEN <<"'">> \o B[segs[k].text] \o <<"'">>
               ELSE segs[k].text])

\* formatter.vformat: the literal text and, for each field, the value of its name
vformat(T, B) ==
    LET segs == parse(T, 1) IN
    Concat([k \in 1..Len(segs) |->
               IF segs[k].kind = "field" THEN B[segs[k].text] ELSE segs[k].text])

Return(value) == [val |-> value, err |-> ""]

Raise(error) == [val |-> None, err |-> error]

\* a faulty render: a placeholder without a binding is rendered as empty text
render_lenient(T, B) ==
    Return(vformat(T, [n \in get_template_variables(T) \cup DOMAIN B |->
                          IF n \in DOMAIN B THEN B[n] ELSE <<>>]))

\* a faulty render: a binding that the template does not reference is an error
render_strict(T, B) ==
    IF get_template_variables(T) \ DOMAIN B # {} THEN Raise("MissingVariable")
    ELSE IF DOMAIN B \ get_template_variables(T) # {} THEN Raise("UnusedVariable")
    ELSE Return(vformat(T, B))

\* PromptTemplate.invoke on a dict: the check for missing variables (a KeyError,
\* the MissingVariable of the contract), then the formatting
render(T, B) ==
    IF get_template_variables(T) \ DOMAIN B # {} THEN Raise("MissingVariable")
    ELSE Return(vformat(T, B))

\* template of cell-6
StructuredPrompt ==
    <<"P","r","o","v","i","d","e"," ","a"," ","b","r","i","e","f"," ","e","x","p","l","a",
      "n","a","t","i","o","n"," ","o","f"," ","{","t","o","p","i","c","}"," ","a","n","d",
      " ","l","i","s","t"," ","i","t","s"," ","t","h","r","e","e"," ","m","a","i","n"," ",
      "c","o","m","p","o","n","e","n","t","s",".">>

Topic == <<"t","o","p","i","c">>

ColorTheory == <<"c","o","l","o","r"," ","t","h","e","o","r","y">>

\* the characters of the bounded templates
TemplateChars == {"{", "}", "t"}

RECURSIVE Strings(_, _)
\* the strings over an alphabet of length at most n
Strings(alphabet, n) ==
    IF n = 0 THEN {<<>>}
    ELSE LET shorter == Strings(alphabet, n - 1) IN
         shorter \cup {Append(s, c) : s \in shorter, c \in alphabet}

Templates ==
    {T \in Strings(TemplateChars, MaxTemplateLen) : IsTemplate(T)} \cup {StructuredPrompt}

Names == {<<"t">>, Topic}

\* bound values; one of them has the look of a placeholder
Values == {ColorTheory, <<"{","t","}">>}

\* the dicts a caller can hand to the template
Bindings == UNION {[D -> Values] : D \in SUBSET Names}

\* template of the contract's example
ExplainTopic ==
    <<"E","x","p","l","a","i","n"," ","{","t","o","p","i","c","}",".">>

Gravity == <<"g","r","a","v","i","t","y">>

\* the templates and the dicts of the chains of SpecCalls
ChainTemplates == {ExplainTopic, StructuredPrompt, <<"{","t","}">>, <<"{","{","t","}","}">>}

ChainBindings == UNION {[D -> {Gravity, ColorTheory}] : D \in SUBSET Names}

\* the prompt of a predict: ConversationTemplate over the rendered history and the input
ConversationPrompt(history, input) ==
    vformat(ConversationTemplate,
            [n \in {<<"h","i","s","t","o","r","y">>, <<"i","n","p","u","t">>} |->
                IF n = <<"i","n","p","u","t">> THEN input ELSE history])

\* ------------------------------------------------------------------- state
\* an entry of the trace: the operation, its conversation (0 when it has none)
\* and the length of that conversation's transcript when the operation started
Op(op, a) ==
    [op |-> op, acc |-> a, before |-> IF a \in Accs THEN Len(transcript[a]) ELSE 0]

Shift(op, a) == <<trace[2], Op(op, a)>>

\* the last operation and the one before it
Last == trace[2]

Prev == trace[1]

\* cell-10 is not running
Off == [phase |-> "off", prompts |-> <<>>, i |-> 0, calls |-> 0]

\* a faulty loop: each loop ends before its last prompt
Advance_early_exit(r, op) ==
    IF r.phase = "off" THEN r
    ELSE IF op \in {"invoke", "predict"} THEN [r EXCEPT !.calls = @ + 1]
    ELSE IF op = "model_fail" THEN [r EXCEPT !.phase = "failed"]
    ELSE IF op = "model_return" THEN
         IF r.i + 1 < Len(r.prompts) THEN [r EXCEPT !.i = @ + 1]
         ELSE [r EXCEPT !.i = 1, !.phase = IF r.phase = "single" THEN "construct" ELSE "done"]
    ELSE IF op = "ConversationChain" THEN
         [r EXCEPT !.phase = IF r.prompts = <<>> THEN "done" ELSE "multi"]
    ELSE r

\* the position of the run of cell-10 after the operation op, a position being:
\* in the single-turn loop ("single") or in the multi-turn loop ("multi") at the
\* i-th prompt, between the loops ("construct"), after the last statement
\* ("done"), or left by an error ("failed"). calls counts the model calls made.
Advance(r, op) ==
    IF r.phase = "off" THEN r
    ELSE IF op \in {"invoke", "predict"} THEN [r EXCEPT !.calls = @ + 1]
    ELSE IF op = "model_fail" THEN [r EXCEPT !.phase = "failed"]
    ELSE IF op = "model_return" THEN
         IF r.i < Len(r.prompts) THEN [r EXCEPT !.i = @ + 1]
         ELSE [r EXCEPT !.i = 1, !.phase = IF r.phase = "single" THEN "construct" ELSE "done"]
    ELSE IF op = "ConversationChain" THEN
         [r EXCEPT !.phase = IF r.prompts = <<>> THEN "done" ELSE "multi"]
    ELSE r

Init ==
    /\ tmpl = None
    /\ bindings = <<>>
    /\ created = {}
    /\ prefixes = [a \in Accs |-> NoPrefixes]
    /\ transcript = [a \in Accs |-> <<>>]
    /\ pending = Idle
    /\ ret = Return(None)
    /\ trace = <<[op |-> "init", acc |-> 0, before |-> 0], [op |-> "init", acc |-> 0, before |-> 0]>>
    /\ appended = [a \in Accs |-> <<>>]
    /\ exchanges = [a \in Accs |-> <<>>]
    /\ run = Off

\* -------------------------------------------------------- formatter actions
\* structured_prompt = PromptTemplate(template=T)
PromptTemplate(T) ==
    /\ pending = Idle
    /\ tmpl' = T
    /\ ret' = Return(None)
    /\ trace' = Shift("PromptTemplate", 0)
    /\ UNCHANGED run
    /\ UNCHANGED <<bindings, created, prefixes, transcript, pending, appended, exchanges>>

\* the caller builds the dict it hands to the template
Bind(B) ==
    /\ pending = Idle
    /\ bindings' = B
    /\ ret' = Return(None)
    /\ trace' = Shift("dict", 0)
    /\ UNCHANGED run
    /\ UNCHANGED <<tmpl, created, prefixes, transcript, pending, appended, exchanges>>

\* a faulty render: the bindings it has used are taken out of the dict
Render_consuming ==
    /\ pending = Idle
    /\ tmpl # None
    /\ ret' = render(tmpl, bindings)
    /\ trace' = Shift("render", 0)
    /\ bindings' = [n \in DOMAIN bindings \ get_template_variables(tmpl) |-> bindings[n]]
    /\ UNCHANGED run
    /\ UNCHANGED <<tmpl, created, prefixes, transcript, pending, appended, exchanges>>

\* render(template, bindings): the formatting step of chain.invoke
Render ==
    /\ pending = Idle
    /\ tmpl # None
    /\ ret' = render(tmpl, bindings)
    /\ trace' = Shift("render", 0)
    /\ UNCHANGED run
    /\ UNCHANGED <<tmpl, bindings, created, prefixes, transcript, pending, appended, exchanges>>

\* ------------------------------------------------------ accumulator actions
\* a faulty construction: the memory of the new conversation starts with the
\* turns the first conversation holds
ConversationChain_shared_memory(a) ==
    /\ pending = Idle
    /\ a \notin created
    /\ a = Cardinality(created) + 1
    /\ created' = created \cup {a}
    /\ prefixes' = [prefixes EXCEPT ![a] = DefaultPrefixes(a)]
    /\ transcript' = [transcript EXCEPT ![a] = transcript[1]]
    /\ appended' = [appended EXCEPT ![a] = transcript[1]]
    /\ exchanges' = [exchanges EXCEPT ![a] = <<>>]
    /\ ret' = Return(None)
    /\ trace' = Shift("ConversationChain", a)
    /\ run' = Advance(run, "ConversationChain")
    /\ UNCHANGED <<tmpl, bindings, pending>>

\* conversation = ConversationChain(llm=llm, memory=ConversationBufferMemory())
ConversationChain(a) ==
    /\ pending = Idle
    /\ a \notin created
    /\ a = Cardinality(created) + 1
    /\ created' = created \cup {a}
    /\ prefixes' = [prefixes EXCEPT ![a] = DefaultPrefixes(a)]
    /\ transcript' = [transcript EXCEPT ![a] = <<>>]
    /\ appended' = [appended EXCEPT ![a] = <<>>]
    /\ exchanges' = [exchanges EXCEPT ![a] = <<>>]
    /\ ret' = Return(None)
    /\ trace' = Shift("ConversationChain", a)
    /\ run' = Advance(run, "ConversationChain")
    /\ UNCHANGED <<tmpl, bindings, pending>>

\* append(role, text)
AppendTurn(a, role, text) ==
    /\ pending = Idle
    /\ a \in created
    /\ transcript' = [transcript EXCEPT ![a] = add_message(@, role, text)]
    /\ appended' = [appended EXCEPT ![a] = @ \o <<Turn(role, text)>>]
    /\ ret' = Return(None)
    /\ trace' = Shift("append", a)
    /\ UNCHANGED run
    /\ UNCHANGED <<tmpl, bindings, created, prefixes, pending, exchanges>>

\* a faulty render_context: the turns it has rendered are taken out of the memory
RenderContext_consuming(a) ==
    /\ pending = Idle
    /\ a \in created
    /\ ret' = Return(render_context(a))
    /\ transcript' = [transcript EXCEPT ![a] = <<>>]
    /\ trace' = Shift("render_context", a)
    /\ UNCHANGED run
    /\ UNCHANGED <<tmpl, bindings, created, prefixes, pending, appended, exchanges>>

\* a faulty render_context: an empty transcript is an error
RenderContext_nonempty(a) ==
    /\ pending = Idle
    /\ a \in created
    /\ ret' = IF transcript[a] = <<>> THEN Raise("EmptyTranscript")
              ELSE Return(render_context(a))
    /\ trace' = Shift("render_context", a)
    /\ UNCHANGED run
    /\ UNCHANGED <<tmpl, bindings, created, prefixes, transcript, pending, appended, exchanges>>

\* render_context()
RenderContext(a) ==
    /\ pending = Idle
    /\ a \in created
    /\ ret' = Return(render_context(a))
    /\ trace' = Shift("render_context", a)
    /\ UNCHANGED run
    /\ UNCHANGED <<tmpl, bindings, created, prefixes, transcript, pending, appended, exchanges>>

\* reset()
Reset(a) ==
    /\ pending = Idle
    /\ a \in created
    /\ transcript' = [transcript EXCEPT ![a] = clear(@)]
    /\ appended' = [appended EXCEPT ![a] = <<>>]
    /\ exchanges' = [exchanges EXCEPT ![a] = <<>>]
    /\ ret' = Return(None)
    /\ trace' = Shift("reset", a)
    /\ UNCHANGED run
    /\ UNCHANGED <<tmpl, bindings, created, prefixes, pending>>

\* a faulty predict: the history is the newest exchange alone, as of a window memory
Predict_newest_exchange_only(a, input) ==
    /\ pending = Idle
    /\ a \in created
    /\ LET n == Len(transcript[a])
           window == IF n <= 2 THEN transcript[a] ELSE SubSeq(transcript[a], n - 1, n)
       IN pending' = [kind |-> "predict", acc |-> a, input |-> input,
                      history |-> get_buffer_string(prefixes[a], window),
                      prompt |-> ConversationPrompt(get_buffer_string(prefixes[a], window), input)]
    /\ ret' = Return(None)
    /\ trace' = Shift("predict", a)
    /\ run' = Advance(run, "predict")
    /\ UNCHANGED <<tmpl, bindings, created, prefixes, transcript, appended, exchanges>>

\* a faulty predict: the prompt is built without the memory, as for a single turn
Predict_without_history(a, input) ==
    /\ pending = Idle
    /\ a \in created
    /\ pending' = [kind |-> "predict", acc |-> a, input |-> input,
                   history |-> <<>>,
                   prompt |-> ConversationPrompt(<<>>, input)]
    /\ ret' = Return(None)
    /\ trace' = Shift("predict", a)
    /\ run' = Advance(run, "predict")
    /\ UNCHANGED <<tmpl, bindings, created, prefixes, transcript, appended, exchanges>>

\* conversation.predict(input=...), up to the blocking model call: the memory is
\* rendered into the prompt and the prompt is submitted
Predict(a, input) ==
    /\ pending = Idle
    /\ a \in created
    /\ pending' = [kind |-> "predict", acc |-> a, input |-> input,
                   history |-> render_context(a),
                   prompt |-> ConversationPrompt(render_context(a), input)]
    /\ ret' = Return(None)
    /\ trace' = Shift("predict", a)
    /\ run' = Advance(run, "predict")
    /\ UNCHANGED <<tmpl, bindings, created, prefixes, transcript, appended, exchanges>>

\* a faulty save: the response is put in the memory before the human input
ModelReturn_response_first(response) ==
    /\ pending # Idle
    /\ IF pending.kind = "predict"
       THEN LET a == pending.acc IN
            /\ transcript' = [transcript EXCEPT ![a] =
                   add_message(add_message(@, "assistant", response), "human", pending.input)]
            /\ appended' = [appended EXCEPT ![a] =
                   @ \o <<Turn("assistant", response), Turn("human", pending.input)>>]
            /\ exchanges' = [exchanges EXCEPT ![a] =
                   @ \o <<[input |-> pending.input, response |-> response,
                           history |-> pending.history]>>]
       ELSE UNCHANGED <<transcript, appended, exchanges>>
    /\ trace' = Shift("model_return", pending.acc)
    /\ ret' = Return(response)
    /\ pending' = Idle
    /\ run' = Advance(run, "model_return")
    /\ UNCHANGED <<tmpl, bindings, created, prefixes>>

\* the model returns. A predict saves the exchange to the memory and returns the
\* response; a single-turn call and a chain only return it
ModelReturn(response) ==
    /\ pending # Idle
    /\ IF pending.kind = "predict"
       THEN LET a == pending.acc IN
            /\ transcript' = [transcript EXCEPT ![a] =
                   add_message(add_message(@, "human", pending.input), "assistant", response)]
            /\ appended' = [appended EXCEPT ![a] =
                   @ \o <<Turn("human", pending.input), Turn("assistant", response)>>]
            /\ exchanges' = [exchanges EXCEPT ![a] =
                   @ \o <<[input |-> pending.input, response |-> response,
                           history |-> pending.history]>>]
       ELSE UNCHANGED <<transcript, appended, exchanges>>
    /\ trace' = Shift("model_return", pending.acc)
    /\ ret' = Return(response)
    /\ pending' = Idle
    /\ run' = Advance(run, "model_return")
    /\ UNCHANGED <<tmpl, bindings, created, prefixes>>

\* a faulty failure handling: the input of the failed predict stays in the memory
ModelFail_saving_input ==
    /\ pending # Idle
    /\ ret' = Raise("ModelError")
    /\ trace' = Shift("model_fail", pending.acc)
    /\ pending' = Idle
    /\ IF pending.kind = "predict"
       THEN /\ transcript' = [transcript EXCEPT ![pending.acc] =
                   add_message(@, "human", pending.input)]
            /\ appended' = [appended EXCEPT ![pending.acc] =
                   @ \o <<Turn("human", pending.input)>>]
       ELSE UNCHANGED <<transcript, appended>>
    /\ run' = Advance(run, "model_fail")
    /\ UNCHANGED <<tmpl, bindings, created, prefixes, exchanges>>

\* a faulty failure handling: the failed model call is made again
ModelFail_retrying ==
    /\ pending # Idle
    /\ trace' = Shift("model_fail", pending.acc)
    /\ run' = Advance(run, "model_fail")
    /\ UNCHANGED <<tmpl, bindings, created, prefixes, transcript, appended, exchanges,
                   pending, ret>>

\* the model call fails: the error leaves predict before anything is saved
ModelFail ==
    /\ pending # Idle
    /\ ret' = Raise("ModelError")
    /\ trace' = Shift("model_fail", pending.acc)
    /\ pending' = Idle
    /\ run' = Advance(run, "model_fail")
    /\ UNCHANGED <<tmpl, bindings, created, prefixes, transcript, appended, exchanges>>

\* a faulty single-turn call: the turns of the first conversation are put in
\* front of the prompt
Invoke_with_memory(prompt) ==
    /\ pending = Idle
    /\ pending' = [kind |-> "invoke", acc |-> 0, input |-> prompt,
                   history |-> <<>>,
                   prompt |-> IF transcript[1] = <<>> THEN prompt
                              ELSE get_buffer_string(DefaultPrefixes(1), transcript[1])
                                      \o <<"\n">> \o prompt]
    /\ ret' = Return(None)
    /\ trace' = Shift("invoke", 0)
    /\ run' = Advance(run, "invoke")
    /\ UNCHANGED <<tmpl, bindings, created, prefixes, transcript, appended, exchanges>>

\* llm.invoke(prompt) and get_completion(prompt), up to the blocking model call:
\* the prompt is submitted as it is
Invoke(prompt) ==
    /\ pending = Idle
    /\ pending' = [kind |-> "invoke", acc |-> 0, input |-> prompt,
                   history |-> <<>>, prompt |-> prompt]
    /\ ret' = Return(None)
    /\ trace' = Shift("invoke", 0)
    /\ run' = Advance(run, "invoke")
    /\ UNCHANGED <<tmpl, bindings, created, prefixes, transcript, appended, exchanges>>

\* a faulty chain: the model is called even when the rendering fails, with the
\* template as it is
ChainInvoke_unchecked ==
    /\ pending = Idle
    /\ tmpl # None
    /\ LET r == render(tmpl, bindings) IN
       /\ ret' = r
       /\ pending' = [kind |-> "chain", acc |-> 0, input |-> <<>>, history |-> <<>>,
                      prompt |-> IF r.err # "" THEN tmpl ELSE r.val]
    /\ trace' = Shift("chain_invoke", 0)
    /\ UNCHANGED run
    /\ UNCHANGED <<tmpl, bindings, created, prefixes, transcript, appended, exchanges>>

\* chain.invoke(bindings) on structured_prompt | llm, up to the blocking model
\* call: the template is rendered and the rendered string is submitted; an error
\* of the rendering leaves the chain before the model is called
ChainInvoke ==
    /\ pending = Idle
    /\ tmpl # None
    /\ LET r == render(tmpl, bindings) IN
       IF r.err # ""
       THEN /\ ret' = r
            /\ pending' = Idle
       ELSE /\ ret' = Return(None)
            /\ pending' = [kind |-> "chain", acc |-> 0, input |-> <<>>,
                           history |-> <<>>, prompt |-> r.val]
    /\ trace' = Shift("chain_invoke", 0)
    /\ UNCHANGED run
    /\ UNCHANGED <<tmpl, bindings, created, prefixes, transcript, appended, exchanges>>

\* ---------------------------------------------------------- specifications
\* the accumulator under its whole contract
Next ==
    \/ \E a \in Accs : ConversationChain(a)
    \/ \E a \in Accs, role \in Roles : \E text \in TextsOf(role) :
          Len(transcript[a]) < MaxTurns /\ AppendTurn(a, role, text)
    \/ \E a \in Accs : RenderContext(a)
    \/ \E a \in Accs : Reset(a)
    \/ \E a \in Accs, input \in Inputs :
          Len(transcript[a]) + 2 <= MaxTurns /\ Predict(a, input)
    \/ \E response \in Replies : ModelReturn(response)
    \/ ModelFail

Spec == Init /\ [][Next]_vars

\* multi-turn conversations, driven by predict alone
NextConv ==
    \/ \E a \in Accs : ConversationChain(a)
    \/ \E a \in Accs, input \in Inputs :
          Len(exchanges[a]) < MaxExchanges /\ Predict(a, input)
    \/ \E response \in Replies : ModelReturn(response)
    \/ ModelFail

SpecConv == Init /\ [][NextConv]_vars

\* the formatter, beside a conversation that holds turns
NextFmt ==
    \/ \E T \in Templates : PromptTemplate(T)
    \/ \E B \in Bindings : Bind(B)
    \/ Render
    \/ ConversationChain(1)
    \/ \E text \in Inputs :
          Len(transcript[1]) < MaxFmtTurns /\ AppendTurn(1, "human", text)

SpecFmt == Init /\ [][NextFmt]_vars

\* single-turn calls, chains and multi-turn predicts of one session
NextCalls ==
    \/ ConversationChain(1)
    \/ \E input \in Inputs :
          Len(exchanges[1]) < MaxExchanges /\ Predict(1, input)
    \/ \E prompt \in Inputs : Invoke(prompt)
    \/ \E T \in ChainTemplates : PromptTemplate(T)
    \/ \E B \in ChainBindings : Bind(B)
    \/ Render
    \/ ChainInvoke
    \/ \E response \in Replies : ModelReturn(response)
    \/ ModelFail

SpecCalls == Init /\ [][NextCalls]_vars

\* one multi-turn conversation, as cell-8 runs it: predict after predict
NextChat ==
    \/ ConversationChain(1)
    \/ \E input \in Inputs :
          Len(exchanges[1]) < MaxPredicts /\ Predict(1, input)
    \/ \E response \in Replies : ModelReturn(response)
    \/ ModelFail

SpecChat == Init /\ [][NextChat]_vars

\* cell-10 starts after cell-8: the conversation of cell-8 holds an exchange, and
\* the list of prompts is given
InitRun ==
    /\ tmpl = None
    /\ bindings = <<>>
    /\ created = {1}
    /\ prefixes = [a \in Accs |-> IF a = 1 THEN DefaultPrefixes(1) ELSE NoPrefixes]
    /\ transcript = [a \in Accs |->
           IF a = 1 THEN <<Turn("human", Hi), Turn("assistant", Hello)>> ELSE <<>>]
    /\ pending = Idle
    /\ ret = Return(Hello)
    /\ trace = <<[op |-> "predict", acc |-> 1, before |-> 0],
                 [op |-> "model_return", acc |-> 1, before |-> 0]>>
    /\ appended = transcript
    /\ exchanges = [a \in Accs |->
           IF a = 1 THEN <<[input |-> Hi, response |-> Hello, history |-> <<>>]>> ELSE <<>>]
    /\ \E n \in 0..MaxPrompts : \E prompts \in [1..n -> Inputs] :
          run = [phase |-> IF n = 0 THEN "construct" ELSE "single",
                 prompts |-> prompts, i |-> 1, calls |-> 0]

\* the statements of cell-10 in their order: the single-turn loop, the
\* construction of the conversation, the multi-turn loop; each call blocks until
\* the model returns or fails
NextRun ==
    \/ run.phase = "single" /\ Invoke(run.prompts[run.i])
    \/ run.phase = "construct" /\ ConversationChain(2)
    \/ run.phase = "multi" /\ Predict(2, run.prompts[run.i])
    \/ \E response \in Replies : ModelReturn(response)
    \/ ModelFail

\* the cell runs on, and the model answers every call it is given
SpecRun == InitRun /\ [][NextRun]_vars /\ WF_vars(NextRun)

TypeOK ==
    /\ created \subseteq Accs
    /\ \A a \in Accs : \A i \in 1..Len(transcript[a]) :
          transcript[a][i].role \in Roles /\ transcript[a][i].text \in Texts
    /\ tmpl = None \/ tmpl \in Templates \cup ChainTemplates
    /\ bindings \in Bindings \cup ChainBindings

\* ------------------------------------------------------------------- claims
\* the turns that conversation a holds now are still there, at their positions,
\* after the step
StepKeeps(a) ==
    /\ Len(transcript'[a]) >= Len(transcript[a])
    /\ \A i \in 1..Len(transcript[a]) : transcript'[a][i] = transcript[a][i]

\* C1: the transcript is append-only. In every state the transcript of a
\* conversation is the sequence of the turns appended to it, in the order of the
\* append calls, and no step other than a reset of that conversation removes,
\* moves or changes a turn: a turn at position i stays at position i.
C1_AppendOnly ==
    /\ [](\A a \in Accs : transcript[a] = appended[a])
    /\ [][\A a \in Accs : (Last'.op = "reset" /\ Last'.acc = a) \/ StepKeeps(a)]_vars

\* two different turns were appended, then the transcript was rendered
C1_Witness ==
    \E a \in created :
        /\ Len(transcript[a]) = 2
        /\ transcript[a][1] # transcript[a][2]
        /\ Prev.op = "append" /\ Prev.acc = a
        /\ Last.op = "render_context" /\ Last.acc = a

\* the label that starts the entry of a turn
RoleLabel(role) ==
    IF role = "human" THEN <<"H","u","m","a","n",":"," ">> ELSE <<"A","I",":"," ">>

\* the entry of a turn: its label, then its text
LabeledTurn(turn) == RoleLabel(turn.role) \o turn.text

RECURSIVE EntryStart(_, _)
\* where the entry of turn i starts in the rendering of turns: after the entries
\* of the turns before it and one separator for each
EntryStart(turns, i) ==
    IF i = 1 THEN 1
    ELSE EntryStart(turns, i - 1) + Len(LabeledTurn(turns[i - 1])) + 1

\* out is the entries of turns, each exactly once and in order, with one newline
\* between two entries and nothing else
ListsExactly(out, turns) ==
    LET n == Len(turns) IN
    /\ Len(out) = IF n = 0 THEN 0 ELSE EntryStart(turns, n) + Len(LabeledTurn(turns[n])) - 1
    /\ \A i \in 1..n :
          LET from == EntryStart(turns, i)
              entry == LabeledTurn(turns[i])
          IN /\ SubSeq(out, from, from + Len(entry) - 1) = entry
             /\ i < n => out[from + Len(entry)] = "\n"

\* C2: the output of render_context() lists the appended turns in call order,
\* each exactly once: n turns render as exactly n role-labeled entries, the i-th
\* entry being the i-th appended turn.
C2_RenderListsEveryTurnOnce ==
    Last.op = "render_context" => ListsExactly(ret.val, appended[Last.acc])

\* a transcript of two different turns was rendered
C2_Witness ==
    /\ Last.op = "render_context"
    /\ Len(appended[Last.acc]) = 2
    /\ appended[Last.acc][1] # appended[Last.acc][2]
    /\ Len(ret.val) > 0

RECURSIVE ExchangeTurns(_)
\* the turns of a sequence of exchanges: for each, the human turn, then the
\* assistant turn with the response the model returned for it
ExchangeTurns(ex) ==
    IF ex = <<>> THEN <<>>
    ELSE <<Turn("human", Head(ex).input), Turn("assistant", Head(ex).response)>>
            \o ExchangeTurns(Tail(ex))

RECURSIVE HistoryOf(_)
\* the rendering of a sequence of exchanges
HistoryOf(ex) ==
    IF ex = <<>> THEN <<>>
    ELSE LET lines == RoleLabel("human") \o Head(ex).input \o <<"\n">>
                         \o RoleLabel("assistant") \o Head(ex).response
         IN IF Len(ex) = 1 THEN lines ELSE lines \o <<"\n">> \o HistoryOf(Tail(ex))

\* the text of the conversation prompt before the history
Preamble == SubSeq(ConversationTemplate, 1, Find(ConversationTemplate, 1, {"{"}) - 1)

EmptyRepresentation == <<>>

\* C4: reset() followed by render_context() returns the empty-transcript
\* representation, the string that render_context() returns on a conversation
\* that was just constructed.
C4_ResetThenRenderIsEmpty ==
    (/\ Last.op = "render_context"
     /\ Prev.acc = Last.acc
     /\ Prev.op \in {"reset", "ConversationChain"})
    => ret = Return(EmptyRepresentation)

\* a transcript that held turns was reset and then rendered
C4_Witness ==
    /\ Last.op = "render_context"
    /\ Prev.op = "reset" /\ Prev.acc = Last.acc
    /\ Prev.before > 0

\* C5: the length of a transcript never decreases across a step unless the step
\* is a reset of it, which sets it to zero; an append increases it by one, the
\* save of a returned predict by two (a human and an assistant turn), and
\* render_context, the submission of a prompt and a failed model call leave it
\* as it is.
C5_ShorterOnlyByReset ==
    [][\A a \in Accs :
          LET old == Len(transcript[a])
              new == Len(transcript'[a])
          IN /\ new < old => Last'.op = "reset" /\ Last'.acc = a /\ new = 0
             /\ (Last'.op = "append" /\ Last'.acc = a) => new = old + 1
             /\ (Last'.op = "model_return" /\ Last'.acc = a) => new = old + 2
             /\ Last'.op \in {"render_context", "predict", "model_fail"} => new = old
      ]_vars

\* a transcript of two turns, the second one appended, was reset
C5_Witness ==
    /\ Prev.op = "append"
    /\ Last.op = "reset" /\ Last.acc = Prev.acc
    /\ Last.before = 2
    /\ transcript[Last.acc] = <<>>

C9_AppendAddsOneTurnAtEnd ==
    [][\A a \in Accs : \A role \in Roles : \A text \in Texts :
          AppendTurn(a, role, text) =>
             /\ Len(transcript'[a]) = Len(transcript[a]) + 1
             /\ transcript'[a][Len(transcript'[a])] = Turn(role, text)
             /\ \A i \in 1..Len(transcript[a]) : transcript'[a][i] = transcript[a][i]
      ]_vars

\* a turn was appended to a transcript that held a different turn
C9_Witness ==
    /\ Last.op = "append"
    /\ Last.before = 1
    /\ Len(transcript[Last.acc]) = 2
    /\ transcript[Last.acc][1] # transcript[Last.acc][2]

\* B binds every placeholder of T
Complete(T, B) == get_template_variables(T) \subseteq DOMAIN B

Braces == {"{", "}"}

\* position i of s starts a doubled brace
Doubled(s, i) == i < Len(s) /\ s[i] \in Braces /\ s[i + 1] = s[i]

RECURSIVE Substitute(_, _, _, _)
\* T from position i on with each placeholder replaced by the value bound to its
\* name and the text between placeholders copied; a doubled brace is kept as it
\* is when verbatim holds and becomes a single brace otherwise
Substitute(T, i, B, verbatim) ==
    IF i > Len(T) THEN <<>>
    ELSE IF Doubled(T, i) THEN
        (IF verbatim THEN <<T[i], T[i]>> ELSE <<T[i]>>) \o Substitute(T, i + 2, B, verbatim)
    ELSE IF T[i] = "{" THEN
        LET j == Find(T, i + 1, {"}"}) IN
        B[SubSeq(T, i + 1, j - 1)] \o Substitute(T, j + 1, B, verbatim)
    ELSE LET k == Find(T, i + 1, Braces) IN
         IF k = 0 THEN SubSeq(T, i, Len(T))
         ELSE SubSeq(T, i, k - 1) \o Substitute(T, k, B, verbatim)

\* s contains the marker of a placeholder: a name between braces
HasMarker(s) ==
    \E i \in 1..Len(s) : \E j \in (i + 2)..Len(s) :
        /\ s[i] = "{"
        /\ s[j] = "}"
        /\ \A k \in (i + 1)..(j - 1) : s[k] \notin Braces

PlainBraces(T, B) ==
    /\ \A i \in 1..Len(T) : ~Doubled(T, i)
    /\ \A n \in get_template_variables(T) \cap DOMAIN B :
          \A k \in 1..Len(B[n]) : B[n][k] \notin Braces

C7_MissingVariable ==
    (Last.op = "render" /\ ~Complete(tmpl, bindings)) =>
        /\ ret = Raise("MissingVariable")
        /\ pending = Idle

\* a template was rendered with a binding for another name than its placeholder
C7_Witness ==
    /\ Last.op = "render"
    /\ get_template_variables(tmpl) = {<<"t">>}
    /\ DOMAIN bindings = {Topic}
    /\ ret.err = "MissingVariable"

\* what render gives for T and B, by the contract
Outcome(T, B) ==
    IF Complete(T, B) THEN Return(Substitute(T, 1, B, FALSE)) ELSE Raise("MissingVariable")

\* C10: render is a pure function: a render step changes neither the template,
\* nor the bindings, nor a transcript, nor anything else of the session, whether
\* it succeeds or fails, and what it returns is determined by the template and
\* the bindings alone.
C10_RenderIsPure ==
    /\ [](Last.op = "render" => ret = Outcome(tmpl, bindings))
    /\ [][Last'.op = "render" =>
             UNCHANGED <<tmpl, bindings, created, prefixes, transcript, pending,
                         appended, exchanges>>]_vars

\* a template was rendered with bindings, beside a conversation that holds a turn
C10_Witness ==
    /\ Last.op = "render"
    /\ Prev.op = "dict"
    /\ DOMAIN bindings = {<<"t">>, Topic}
    /\ get_template_variables(tmpl) = {<<"t">>}
    /\ transcript[1] # <<>>

\* the bindings B without the name n
Without(B, n) == [k \in DOMAIN B \ {n} |-> B[k]]

\* the names that the bindings supply and the template does not reference
Unused(T, B) == DOMAIN B \ get_template_variables(T)

\* C11: a binding whose name is no placeholder of the template is not an error:
\* when every placeholder is bound, a render with such extra bindings succeeds,
\* and what it returns is what the render returns without any one of them and
\* without all of them.
C11_UnusedBindingIsIgnored ==
    (Last.op = "render" /\ Complete(tmpl, bindings) /\ Unused(tmpl, bindings) # {}) =>
        /\ ret.err = ""
        /\ \A n \in Unused(tmpl, bindings) : ret = Outcome(tmpl, Without(bindings, n))
        /\ ret = Outcome(tmpl, [k \in get_template_variables(tmpl) |-> bindings[k]])

C11_Witness ==
    /\ Last.op = "render"
    /\ get_template_variables(tmpl) = {<<"t">>}
    /\ DOMAIN bindings = {<<"t">>, Topic}
    /\ ret.err = ""
    /\ ret.val # None

\* the operations of the accumulator
AccumulatorOps == {"append", "render_context", "reset"}

\* C12: the accumulator raises no error of its own: between two calls, append
\* (of every role and every text), render_context and reset can be called on
\* every conversation, whatever its transcript holds, an empty one included; each
\* of them returns without an error; and the only error a session of accumulator
\* calls and predicts sees is the one a failed model call hands on.
C12_AccumulatorNeverFails ==
    /\ Last.op \in AccumulatorOps => ret.err = ""
    /\ ret.err # "" => (Last.op = "model_fail" /\ ret.err = "ModelError")
    /\ pending = Idle =>
          \A a \in created :
             /\ ENABLED Reset(a)
             /\ ENABLED RenderContext(a)
             /\ \A role \in Roles : \A text \in TextsOf(role) :
                   ENABLED AppendTurn(a, role, text)

\* a reset of an empty transcript followed by a render_context of it, both without error
C12_Witness ==
    /\ Prev.op = "reset"
    /\ Prev.before = 0
    /\ Last.op = "render_context"
    /\ Last.acc = Prev.acc
    /\ transcript[Last.acc] = <<>>
    /\ ret.err = ""

\* what render_context returns for conversation a after the step
render_context_after(a) == get_buffer_string(prefixes'[a], transcript'[a])

\* C13: conversations share no state: a step on one conversation, an append, a
\* reset, a render_context or a predict and its model return, leaves the
\* transcript of every other conversation and what render_context returns for
\* it unchanged, and a conversation is constructed with an empty transcript,
\* whatever the conversations constructed before it hold.
C13_ConversationsAreIndependent ==
    /\ [](\A a \in Accs : Last.op = "ConversationChain" /\ Last.acc = a =>
             transcript[a] = <<>> /\ render_context(a) = <<>>)
    /\ [][\A a \in created :
             Last'.acc # a =>
                /\ transcript'[a] = transcript[a]
                /\ render_context_after(a) = render_context(a)]_vars

\* the second conversation is constructed when the first holds turns, and the
\* first keeps its turns
C13_Witness ==
    /\ Last.op = "ConversationChain"
    /\ Last.acc = 2
    /\ transcript[1] # <<>>
    /\ transcript[2] = <<>>

\* a single-turn call is in progress
SingleTurn == pending.kind = "invoke"

\* C14: a single-turn call (llm.invoke, get_completion) submits exactly the
\* prompt it was given, with no history, whatever calls and responses came
\* before it, and the call, its return and its failure leave every transcript
\* unchanged.
C14_SingleTurnIsIsolated ==
    /\ [](SingleTurn =>
             /\ Last.op = "invoke"
             /\ pending.prompt = pending.input
             /\ pending.prompt \in Inputs
             /\ pending.history = <<>>)
    /\ [][(SingleTurn \/ SingleTurn') =>
             /\ transcript' = transcript
             /\ appended' = appended
             /\ exchanges' = exchanges]_vars

\* a single-turn call after an earlier single-turn call has returned, in a
\* session whose conversation holds turns
C14_Witness ==
    /\ Prev.op = "model_return"
    /\ Prev.acc = 0
    /\ Last.op = "invoke"
    /\ SingleTurn
    /\ transcript[1] # <<>>
    /\ pending.prompt = Hi

\* "Human: Hi\nAI: Hello"
HumanHiAIHello ==
    <<"H","u","m","a","n",":"," ","H","i","\n","A","I",":"," ","H","e","l","l","o">>

\* the number of newlines in s
Newlines(s) == Cardinality({i \in 1..Len(s) : s[i] = "\n"})

\* the number of newlines in the texts of the turns
RECURSIVE NewlinesIn(_)
NewlinesIn(turns) ==
    IF turns = <<>> THEN 0 ELSE Newlines(turns[1].text) + NewlinesIn(Tail(turns))

\* C15: render_context lays the transcript out as one line per turn, labeled
\* "Human: " or "AI: ", the lines joined by one newline, with no separator in
\* front or at the end: append(human, "Hi") then append(assistant, "Hello") on
\* an empty transcript renders as "Human: Hi\nAI: Hello", one turn renders as
\* its labeled line alone, and n > 0 turns add exactly n - 1 newlines to those of
\* their texts.
C15_RenderLayout ==
    Last.op = "render_context" =>
        LET turns == appended[Last.acc] IN
        /\ turns = <<Turn("human", Hi), Turn("assistant", Hello)>> => ret.val = HumanHiAIHello
        /\ turns = <<Turn("human", Hi)>> => ret.val = <<"H","u","m","a","n",":"," ","H","i">>
        /\ turns = <<Turn("assistant", Hello)>> => ret.val = <<"A","I",":"," ","H","e","l","l","o">>
        /\ turns # <<>> =>
              /\ Newlines(ret.val) = NewlinesIn(turns) + Len(turns) - 1
              /\ ret.val[1] \in {"H", "A"}
              /\ ret.val[Len(ret.val)] = turns[Len(turns)].text[Len(turns[Len(turns)].text)]

\* the example of the contract: two appends on an empty transcript, then the render
C15_Witness ==
    /\ Last.op = "render_context"
    /\ Prev.op = "append"
    /\ Prev.before = 1
    /\ transcript[Last.acc] = <<Turn("human", Hi), Turn("assistant", Hello)>>
    /\ ret.val = HumanHiAIHello

\* "Explain gravity."
ExplainGravity ==
    <<"E","x","p","l","a","i","n"," ","g","r","a","v","i","t","y",".">>

\* the dict {topic: "gravity"}
TopicGravity == [n \in {Topic} |-> Gravity]

\* C16: render("Explain {topic}.", {topic: "gravity"}) returns "Explain gravity.":
\* a render of this template with this dict returns that text without an error,
\* and a chain invoked with them submits that text to the model.
C16_ExplainGravity ==
    (tmpl = ExplainTopic /\ bindings = TopicGravity) =>
        /\ Last.op = "render" => ret = Return(ExplainGravity)
        /\ Last.op = "chain_invoke" => pending.prompt = ExplainGravity

C16_Witness ==
    /\ tmpl = ExplainTopic
    /\ bindings = TopicGravity
    /\ Last.op = "render"
    /\ ret.err = ""
    /\ ret.val = ExplainGravity

\* the operations that call the model, and the two ways a model call ends
CallOps == {"predict", "invoke", "chain_invoke"}

ModelOps == {"model_return", "model_fail"}

OnlyTurnsSinceReset(a) == transcript[a] = appended[a]

\* C18: a reset is not undone by anything that follows: after a reset the
\* transcript is empty, after a reset and n further appends it consists of
\* exactly those n turns, and what a later render_context returns and what a
\* later predict submits as history lists those turns and no earlier one.
C18_ResetIsIrreversible ==
    /\ \A a \in created : OnlyTurnsSinceReset(a)
    /\ Last.op = "reset" => (transcript[Last.acc] = <<>> /\ render_context(Last.acc) = <<>>)
    /\ (Prev.op = "reset" /\ Last.acc = Prev.acc) =>
          /\ Last.op = "append" => Len(transcript[Last.acc]) = 1
          /\ Last.op = "render_context" => ret.val = <<>>
          /\ Last.op = "predict" => pending.history = <<>>
    /\ Last.op = "render_context" => ListsExactly(ret.val, appended[Last.acc])
    /\ Last.op = "predict" => ListsExactly(pending.history, appended[Last.acc])

\* a transcript that held turns was reset, and a turn was appended after it
C18_Witness ==
    /\ Prev.op = "reset"
    /\ Prev.before > 0
    /\ Last.op = "append"
    /\ Last.acc = Prev.acc
    /\ Len(transcript[Last.acc]) = 1

\* C19: a chain renders, then calls the model with what the render returned:
\* when the dict binds every placeholder of the template, chain.invoke leaves
\* one model call outstanding whose prompt is the template with every
\* placeholder replaced by its value, and the model step that follows a
\* chain.invoke is the one of that call; when a placeholder has no binding,
\* chain.invoke ends with MissingVariable and no model call is made.
C19_ChainSubmitsRenderedPrompt ==
    /\ [](Last.op = "chain_invoke" =>
             IF Complete(tmpl, bindings)
             THEN /\ pending.kind = "chain"
                  /\ pending.prompt = Substitute(tmpl, 1, bindings, FALSE)
                  /\ ret.err = ""
             ELSE /\ pending = Idle
                  /\ ret = Raise("MissingVariable"))
    /\ [](pending.kind = "chain" => Last.op = "chain_invoke")
    /\ [][(Last'.op \in ModelOps /\ Last.op = "chain_invoke") =>
             (pending.kind = "chain" /\ Complete(tmpl, bindings))]_vars

\* the chain of cell-6 with its placeholder bound has its rendered prompt at the model
C19_Witness ==
    /\ Last.op = "chain_invoke"
    /\ tmpl = StructuredPrompt
    /\ Topic \in DOMAIN bindings
    /\ bindings[Topic] = ColorTheory
    /\ pending.kind = "chain"
    /\ Len(pending.prompt) = Len(StructuredPrompt) - 7 + Len(ColorTheory)

\* a chain whose dict misses the placeholder has ended without a model call
C19_WitnessMissing ==
    /\ Last.op = "chain_invoke"
    /\ ~Complete(tmpl, bindings)
    /\ pending = Idle
    /\ ret.err = "MissingVariable"

\* C20: a predict whose model call fails leaves the transcript as it was before
\* the predict: the failing step changes no transcript and no rendering, neither
\* the human turn of the failed exchange nor a part of an assistant turn is in
\* the memory after it, and the predict that follows it on the conversation
\* submits the rendering of the completed exchanges alone.
C20_FailedPredictLeavesTranscript ==
    /\ [][Last'.op = "model_fail" =>
             /\ transcript' = transcript
             /\ \A a \in created : render_context_after(a) = render_context(a)]_vars
    /\ []((Last.op = "model_fail" /\ Prev.op = "predict") =>
             /\ Len(transcript[Last.acc]) = Prev.before
             /\ transcript[Last.acc] = ExchangeTurns(exchanges[Last.acc])
             /\ ret.val = None)
    /\ []((Prev.op = "model_fail" /\ Last.op = "predict" /\ Last.acc = Prev.acc) =>
             /\ pending.history = HistoryOf(exchanges[Last.acc])
             /\ Len(transcript[Last.acc]) = 2 * Len(exchanges[Last.acc]))

\* after one completed exchange a predict failed, and the next predict of the
\* conversation is at the model with the history of the completed exchange
C20_Witness ==
    /\ Prev.op = "model_fail"
    /\ Last.op = "predict"
    /\ Last.acc = Prev.acc
    /\ Len(exchanges[Last.acc]) = 1
    /\ Len(transcript[Last.acc]) = 2
    /\ pending.history = HistoryOf(exchanges[Last.acc])

\* C21: in a conversation driven by predict alone the transcript has even
\* length and alternates the roles, starting with human: after k completed
\* predicts it holds exactly 2k turns, the turn at position 2i - 1 is the human
\* input of the i-th completed predict and the turn at position 2i is the
\* response the model returned for it. This holds between predicts and while a
\* model call is outstanding.
C21_TranscriptAlternates ==
    \A a \in created :
       LET n == Len(transcript[a])
           k == Len(exchanges[a])
       IN /\ n % 2 = 0
          /\ n = 2 * k
          /\ \A i \in 1..n :
                transcript[a][i].role = IF i % 2 = 1 THEN "human" ELSE "assistant"
          /\ \A i \in 1..k :
                /\ transcript[a][2 * i - 1].text = exchanges[a][i].input
                /\ transcript[a][2 * i].text = exchanges[a][i].response

\* two predicts of a conversation have completed and no call is outstanding
C21_Witness ==
    /\ pending = Idle
    /\ Last.op = "model_return"
    /\ Len(exchanges[Last.acc]) = 2
    /\ Len(transcript[Last.acc]) = 4
    /\ transcript[Last.acc][3].role = "human"
    /\ transcript[Last.acc][4].role = "assistant"

\* C22: render_context only reads: a render_context step leaves every
\* transcript as it is, so what it returned is what a render_context of the
\* state after it returns, a render_context that follows it on the conversation
\* returns the same string, and a predict that follows it submits that string as
\* its history.
C22_RenderContextIsReadOnly ==
    /\ [][Last'.op = "render_context" =>
             /\ transcript' = transcript
             /\ ret'.val = render_context_after(Last'.acc)]_vars
    /\ [](Last.op = "render_context" =>
             /\ Len(transcript[Last.acc]) = Last.before
             /\ ret.val = render_context(Last.acc))
    /\ []((Prev.op = "render_context" /\ Last.acc = Prev.acc) =>
             /\ Last.op = "render_context" =>
                   (Last.before = Prev.before /\ ListsExactly(ret.val, transcript[Last.acc]))
             /\ Last.op = "predict" =>
                   (Last.before = Prev.before /\ pending.history = render_context(Last.acc)))

\* a transcript of two turns was rendered twice in a row, to the same string
C22_Witness ==
    /\ Prev.op = "render_context"
    /\ Last.op = "render_context"
    /\ Last.acc = Prev.acc
    /\ Prev.before = 2
    /\ Len(transcript[Last.acc]) = 2
    /\ ret.val = render_context(Last.acc)
    /\ Len(ret.val) > 0

\* s is a prefix of t
IsPrefix(s, t) == Len(s) <= Len(t) /\ SubSeq(t, 1, Len(s)) = s

\* the two lines of an exchange: the human input and the response returned for it
ExchangeLines(e) ==
    RoleLabel("human") \o e.input \o <<"\n">> \o RoleLabel("assistant") \o e.response

\* the history h with the lines of the exchange e after it, as one more pair of lines
Extended(h, e) == IF h = <<>> THEN ExchangeLines(e) ELSE h \o <<"\n">> \o ExchangeLines(e)

\* C23: with no reset in between the rendered history of a conversation grows
\* by extension only: the history submitted by the first predict is empty, and
\* the history submitted by the predict after the k-th completed one has the
\* history that the k-th submitted as a prefix and, after it, exactly the two
\* lines of the k-th exchange (its human input and the response returned for
\* it), on lines of their own.
C23_HistoryGrowsByExtension ==
    \A a \in created :
       LET ex == exchanges[a]
           k == Len(ex)
       IN /\ k > 0 => ex[1].history = <<>>
          /\ \A i \in 1..(k - 1) :
                /\ IsPrefix(ex[i].history, ex[i + 1].history)
                /\ ex[i + 1].history = Extended(ex[i].history, ex[i])
          /\ (pending.kind = "predict" /\ pending.acc = a) =>
                IF k = 0 THEN pending.history = <<>>
                ELSE /\ IsPrefix(ex[k].history, pending.history)
                     /\ pending.history = Extended(ex[k].history, ex[k])

\* the third predict of the conversation is at the model: its history extends
\* the non-empty history of the second by the second exchange
C23_Witness ==
    /\ pending.kind = "predict"
    /\ Len(exchanges[pending.acc]) = 2
    /\ exchanges[pending.acc][2].history # <<>>
    /\ Len(pending.history) > Len(exchanges[pending.acc][2].history)
    /\ IsPrefix(exchanges[pending.acc][2].history, pending.history)

\* the number of model calls that are outstanding: none or one
Outstanding == IF pending = Idle THEN 0 ELSE 1

\* what holds at every position of the run of cell-10 over n prompts
RunInOrder ==
    LET n == Len(run.prompts) IN
    /\ run.calls <= 2 * n
    /\ transcript[1] = <<Turn("human", Hi), Turn("assistant", Hello)>>
    /\ run.phase = "single" =>
          /\ 2 \notin created
          /\ run.calls = (run.i - 1) + Outstanding
          /\ pending # Idle =>
                /\ pending.kind = "invoke"
                /\ pending.prompt = run.prompts[run.i]
    /\ run.phase = "construct" =>
          /\ 2 \notin created
          /\ run.calls = n
          /\ pending = Idle
    /\ run.phase = "multi" =>
          /\ run.calls = n + (run.i - 1) + Outstanding
          /\ Len(transcript[2]) = 2 * (run.i - 1)
          /\ pending # Idle =>
                /\ pending.kind = "predict"
                /\ pending.acc = 2
                /\ pending.input = run.prompts[run.i]
    /\ pending.kind = "predict" => (run.phase = "multi" /\ run.calls > n)
    /\ \A j \in 1..Len(transcript[2]) :
          j % 2 = 1 => transcript[2][j].text = run.prompts[(j + 1) \div 2]
    /\ run.phase = "done" =>
          /\ pending = Idle
          /\ run.calls = 2 * n
          /\ Len(transcript[2]) = 2 * n
          /\ 2 \in created

\* C24: when every model call returns, the comparison of cell-10 over a list of
\* n prompts ends after exactly 2n model calls: first the n single-turn calls,
\* in list order, each with its own prompt alone, then, on a conversation
\* constructed after the last of them has returned, the n predicts in list
\* order; the conversation ends with 2n turns. The run ends or a model call of
\* it fails.
C24_ComparisonRunTerminates ==
    /\ []RunInOrder
    /\ <>(run.phase = "done" \/ Last.op = "model_fail")

\* the run over three prompts has ended: six model calls, six turns
C24_Witness ==
    /\ run.phase = "done"
    /\ Len(run.prompts) = 3
    /\ run.calls = 6
    /\ Len(transcript[2]) = 6

====
